---- MODULE Spec2Model ----
(***************************************************************************)
(* Grido Audit Vision: the data layer (db.py) and the handlers of the      *)
(* pages "Planes de Mejora" (pagina_mejoras.py) and "Auditoria IA"         *)
(* (pagina_auditoria.py), as a state machine over the MongoDB collections  *)
(* desvios, decisiones, audit_results and auditorias.                      *)
(*                                                                         *)
(* Time is an integer number of days.  A document's _id is its position in *)
(* the collection (documents of these collections are never deleted).      *)
(* Python's None is the value None (dates) or NoneStr (strings).           *)
(***************************************************************************)
EXTENDS Integers, Sequences, FiniteSets, TLC

VARIABLES now, desvios, decisiones, audit_results, auditorias, upserts, runs,
          corrections, photos, batch, respuesta, creates, ups,
          pantalla, conectado, cache, uri

\* the collections corrections and photos, the analysis loop of the page
\* Auditoria IA with the classifier's response, and the calls of
\* create_desvio and upsert_auditoria in flight
otras == <<corrections, photos, batch, respuesta, creates, ups>>

\* what the last script run of a page showed, whether the datastore can be
\* reached, whether st.cache_resource holds a client of _connect, and
\* whether the secret MONGODB_URI is set
mas == <<pantalla, conectado, cache, uri>>

vars == <<now, desvios, decisiones, audit_results, auditorias, upserts, runs,
          otras, mas>>

\* ---------------------------------------------------------------- bounds
MaxDay == 80
TickDays == 20
MaxDesvios == 3
MaxDecisiones == 2
MaxResults == 3
MaxDayAudit == 20
DaysPerPeriod == 30
MaxRespuesta == 3
MaxFotos == 2
MaxCorrections == 6
MaxDayCorr == 20
MaxPhotos == 2
MaxDayControl == 20
MaxPlan == 12
PlanPrevios == 9

\* ------------------------------------------------------ program constants
None == -1
NoneStr == "None"
RecurrenceDays == 60
EstructuralMin == 3
DefaultLimitDays == 7
ControlDays == 7
CorrectionsLimit == 5
DaysPerMonth == 30
TopPlan == 10

LOCALES == {"Edén", "España"}
ESTADOS_DESVIO == <<"pendiente", "en_proceso", "cumplido", "incumplido">>
EstadosAbiertos == {"pendiente", "en_proceso"}
EstadosDecision == {"pendiente", "aprobado", "descartado"}
Todos == "Todos"

\* list(SECTIONS.keys()) and CRITERIA, cut to three sections: one with two
\* criteria, one with a single criterion, and the last one
SECTION_KEYS == <<"A", "B", "C">>
CRITERIA ==
    << [id |-> "A.1", section |-> "A"], [id |-> "A.2", section |-> "A"],
       [id |-> "B.4", section |-> "B"],
       [id |-> "C.5", section |-> "C"], [id |-> "C.6", section |-> "C"] >>

\* the ids of the catalog
CriteriaIds == {CRITERIA[k].id : k \in DOMAIN CRITERIA}

\* the section of a criterion
SectionOf(id) == CRITERIA[CHOOSE k \in DOMAIN CRITERIA : CRITERIA[k].id = id].section

\* the catalog entries the model audits: item id -> section
ItemSection == [x \in {"B.4", "C.5"} |-> IF x = "B.4" THEN "B" ELSE "C"]
Items == DOMAIN ItemSection

Range(s) == {s[i] : i \in DOMAIN s}

\* ------------------------------------------------------------ desvios
\* _check_recurrence without the "local" key of its filter
CheckRecurrence_AnyLocal(col, t, local, item_codigo, days) ==
    Cardinality({i \in DOMAIN col :
                    /\ col[i].item_codigo = item_codigo
                    /\ col[i].fecha_deteccion >= t - days})

\* _check_recurrence: the Deviations of (local, item_codigo) detected at or
\* after the cutoff now - days
CheckRecurrence(col, t, local, item_codigo, days) ==
    Cardinality({i \in DOMAIN col :
                    /\ col[i].local = local
                    /\ col[i].item_codigo = item_codigo
                    /\ col[i].fecha_deteccion >= t - days})

\* the document of create_desvio flagging reincidente from the third
\* detection on
DesvioDoc_ReincidenteTarde(t, local, item_codigo, veces) ==
    [ fecha_deteccion     |-> t,
      local               |-> local,
      item_codigo         |-> item_codigo,
      tipo_desvio         |-> IF veces >= EstructuralMin
                              THEN "estructural" ELSE "operativo",
      responsable         |-> "",
      fecha_limite        |-> None,
      estado              |-> "pendiente",
      fecha_cierre        |-> None,
      comentario_cierre   |-> NoneStr,
      reincidente         |-> veces > 2,
      veces_detectado_60d |-> veces,
      prioridad           |-> "media",
      updated_at          |-> None ]

\* the document create_desvio builds from the count veces
DesvioDoc(t, local, item_codigo, veces) ==
    [ fecha_deteccion     |-> t,
      local               |-> local,
      item_codigo         |-> item_codigo,
      tipo_desvio         |-> IF veces >= EstructuralMin
                              THEN "estructural" ELSE "operativo",
      responsable         |-> "",
      fecha_limite        |-> None,
      estado              |-> "pendiente",
      fecha_cierre        |-> None,
      comentario_cierre   |-> NoneStr,
      reincidente         |-> veces > 1,
      veces_detectado_60d |-> veces,
      prioridad           |-> "media",
      updated_at          |-> None ]

\* the document create_desvio inserts when nothing runs between its count
\* and its insert
NewDesvio(col, t, local, item_codigo) ==
    DesvioDoc(t, local, item_codigo,
              CheckRecurrence(col, t, local, item_codigo, RecurrenceDays) + 1)

\* update_desvio that writes only while the Deviation is open
UpdateDesvio_SiAbierto(col, t, desvio_id, updates) ==
    IF col[desvio_id].estado \in {"pendiente", "en_proceso"}
    THEN [col EXCEPT ![desvio_id] =
            [f \in DOMAIN col[desvio_id] |->
                IF f \in DOMAIN updates THEN updates[f]
                ELSE IF f = "updated_at" THEN t
                ELSE col[desvio_id][f]]]
    ELSE col

\* update_desvio: $set of the given fields and of updated_at = now on the
\* document desvio_id (updates is a record whose fields are a subset of the
\* document's; updated_at is None until the first update)
UpdateDesvio(col, t, desvio_id, updates) ==
    [col EXCEPT ![desvio_id] =
        [f \in DOMAIN col[desvio_id] |->
            IF f \in DOMAIN updates THEN updates[f]
            ELSE IF f = "updated_at" THEN t
            ELSE col[desvio_id][f]]]

\* close_desvio
CloseDesvio(col, t, desvio_id, comentario) ==
    UpdateDesvio(col, t, desvio_id,
        [estado |-> "cumplido", fecha_cierre |-> t,
         comentario_cierre |-> comentario])

\* get_desvios(local=...): the ids of the documents matching the filter
\* (None / "Todos" in the sidebar means no filter)
GetDesvios(col, local) ==
    {i \in DOMAIN col : local = Todos \/ col[i].local = local}

\* create_decision
NewDecision(col, desvio_id) ==
    [ desvio_id       |-> desvio_id,
      item_codigo     |-> col[desvio_id].item_codigo,
      local           |-> col[desvio_id].local,
      propuesta       |-> "",
      estado_decision |-> "pendiente" ]

\* get_decisiones_pendientes(local=...)
GetDecisionesPendientes(dcol, local) ==
    {k \in DOMAIN dcol :
        /\ dcol[k].estado_decision = "pendiente"
        /\ (local = Todos \/ dcol[k].local = local)}

\* -------------------------------------------------------- audit_results
STATUSES == {"Conforme", "Observación", "No Conforme"}

\* datetime.now().strftime("%Y-%m"): the period (month) of a day
Period(t) == t \div DaysPerPeriod

\* ------------------------------------------- the classifier's response
\* The text of a response is a sequence of tokens: a code fence, a line
\* break, prose, or the complete text of one JSON value.
Fence == "fence"
LF == "LF"
Prosa == "prosa"
Nota == "No se pudo parsear la respuesta de la IA."

\* a Python dict is a function on its keys; any other Python value (a list,
\* a string, None) has tipo "otro"
PyDict(d) == [tipo |-> "dict", d |-> d]
PyOtro == [tipo |-> "otro", d |-> <<>>]

\* d.get(k, default)
Get(d, k, default) == IF k \in DOMAIN d THEN d[k] ELSE default

\* the verdict object the prompt asks for
Veredicto(status) ==
    [status |-> status, justificacion |-> <<Prosa>>,
     detalles_observados |-> <<>>, recomendaciones |-> <<>>]

\* the JSON texts of the model and the value json.loads returns for each:
\* verdicts with a status of the rubric, with a status outside it, without a
\* status, and a JSON value that is not an object
JsonValue ==
    [x \in {"{Conforme}", "{No Conforme}", "{Parcial}", "{}", "[]"} |->
        CASE x = "{Conforme}" -> PyDict(Veredicto("Conforme"))
          [] x = "{No Conforme}" -> PyDict(Veredicto("No Conforme"))
          [] x = "{Parcial}" -> PyDict(Veredicto("Parcial"))
          [] x = "{}" -> PyDict([justificacion |-> <<Prosa>>])
          [] x = "[]" -> PyOtro]

Tokens == {Fence, LF, Prosa} \cup DOMAIN JsonValue

\* str.strip(): without the leading and trailing white space
RECURSIVE LStrip(_)
LStrip(s) == IF s # <<>> /\ s[1] = LF THEN LStrip(Tail(s)) ELSE s

RECURSIVE RStrip(_)
RStrip(s) ==
    IF s # <<>> /\ s[Len(s)] = LF THEN RStrip(SubSeq(s, 1, Len(s) - 1)) ELSE s

Strip(s) == RStrip(LStrip(s))

Positions(s, tok) == {k \in DOMAIN s : s[k] = tok}
Min(S) == CHOOSE x \in S : \A y \in S : x <= y
Max(S) == CHOOSE x \in S : \A y \in S : x >= y

\* raw.rsplit(fence, 1)[0]: the text before the last fence, all of it when
\* there is none
RSplitFence(s) ==
    IF Positions(s, Fence) = {} THEN s
    ELSE SubSeq(s, 1, Max(Positions(s, Fence)) - 1)

\* json.loads(raw): the value of the single JSON text, white space around
\* it allowed; anything else raises JSONDecodeError
JsonLoads(s) ==
    LET t == Strip(s)
    IN  IF Len(t) = 1 /\ t[1] \in DOMAIN JsonValue
        THEN [ok |-> TRUE, value |-> JsonValue[t[1]]]
        ELSE [ok |-> FALSE, value |-> PyOtro]

\* the dict analyze_photo returns on JSONDecodeError
Fallback(raw) ==
    PyDict([status |-> "Observación", justificacion |-> raw,
            detalles_observados |-> <<>>, recomendaciones |-> <<Nota>>])

\* analyze_photo from the response text on: strip, drop the fence line and
\* the closing fence, json.loads with its fallback.  raw.split(LF, 1)[1]
\* raises IndexError when the fenced text has no line break.
ParseResponse(content) ==
    LET raw == Strip(content)
    IN  IF raw # <<>> /\ raw[1] = Fence
        THEN IF Positions(raw, LF) = {}
             THEN [raises |-> TRUE, value |-> PyOtro]
             ELSE LET body == RSplitFence(
                                SubSeq(raw, Min(Positions(raw, LF)) + 1, Len(raw)))
                  IN  [raises |-> FALSE,
                       value |-> IF JsonLoads(body).ok THEN JsonLoads(body).value
                                 ELSE Fallback(body)]
        ELSE [raises |-> FALSE,
              value |-> IF JsonLoads(raw).ok THEN JsonLoads(raw).value
                        ELSE Fallback(raw)]

\* the document save_audit_result inserts for the dict result
NewResult(local, fecha, item_id, result) ==
    [ local           |-> local,
      fecha           |-> fecha,
      section         |-> SectionOf(item_id),
      item_id         |-> item_id,
      status          |-> Get(result, "status", "Observación"),
      justificacion   |-> Get(result, "justificacion", <<>>),
      recomendaciones |-> Get(result, "recomendaciones", <<>>) ]

\* get_audit_results(local, fecha): the ids of the matching documents
GetAuditResults(col, local, fecha) ==
    {i \in DOMAIN col : col[i].local = local /\ col[i].fecha = fecha}

\* get_recurring_failures(local, min_count): $match non-Conforme results of
\* the location, $group by item with fail_count = $sum 1 and fechas =
\* $addToSet fecha, $match fail_count >= min_count
GetRecurringFailures(col, local, min_count) ==
    LET fails == {i \in DOMAIN col :
                     col[i].local = local /\ col[i].status # "Conforme"}
        grupo(x) == {i \in fails : col[i].item_id = x}
    IN  {[item_id |-> x, fail_count |-> Cardinality(grupo(x)),
          fechas |-> {col[i].fecha : i \in grupo(x)}] :
            x \in {y \in {col[i].item_id : i \in fails} :
                      Cardinality(grupo(y)) >= min_count}}

\* ----------------------------------------------------------- auditorias
\* score_map.get(status, 50) with Observación worth nothing
ScoreMap_SinObservacion(status) ==
    CASE status = "Conforme" -> 100
      [] status = "Observación" -> 0
      [] status = "No Conforme" -> 0
      [] OTHER -> 50

\* score_map.get(status, 50)
ScoreMap(status) ==
    CASE status = "Conforme" -> 100
      [] status = "Observación" -> 50
      [] status = "No Conforme" -> 0
      [] OTHER -> 50

\* round half up
PyRound_HalfUp(num, den) ==
    LET q == num \div den
        r == num % den
    IN  IF 2 * r >= den THEN q + 1 ELSE q

\* Python's round(num / den) for num >= 0, den > 0: to the nearest integer,
\* a tie to the even one
PyRound(num, den) ==
    LET q == num \div den
        r == num % den
    IN  IF 2 * r < den THEN q
        ELSE IF 2 * r > den THEN q + 1
        ELSE IF q % 2 = 0 THEN q ELSE q + 1

\* sum(f[x] for x in S)
RECURSIVE SumOver(_, _)
SumOver(f, S) ==
    IF S = {} THEN 0
    ELSE LET x == CHOOSE y \in S : TRUE
         IN  f[x] + SumOver(f, S \ {x})

\* calculate_section_scores keeping, of every item, only the result
\* recorded last
CalculateSectionScores_UltimaPorItem(col, local, fecha) ==
    LET todos == GetAuditResults(col, local, fecha)
        results == {i \in todos :
                       \A j \in todos : col[j].item_id = col[i].item_id => j <= i}
        pts == [i \in results |-> ScoreMap(col[i].status)]
        de(sec) == {i \in results : col[i].section = sec}
    IN  [sec \in {col[i].section : i \in results} |->
            PyRound(SumOver(pts, de(sec)), Cardinality(de(sec)))]

\* calculate_section_scores(local, fecha): section -> rounded mean of the
\* points of the section's results
CalculateSectionScores(col, local, fecha) ==
    LET results == GetAuditResults(col, local, fecha)
        pts == [i \in results |-> ScoreMap(col[i].status)]
        de(sec) == {i \in results : col[i].section = sec}
    IN  [sec \in {col[i].section : i \in results} |->
            PyRound(SumOver(pts, de(sec)), Cardinality(de(sec)))]

\* round(sum(all_pts) / len(all_pts)) if all_pts else 0
ScoreGlobal(scores) ==
    IF DOMAIN scores = {} THEN 0
    ELSE PyRound(SumOver(scores, DOMAIN scores), Cardinality(DOMAIN scores))

\* update_one(..., upsert=True) that also $sets created_at
UpdateOneUpsert_SetCreatedAt(col, local, fecha, set, t) ==
    LET found == {a \in col : a.local = local /\ a.fecha = fecha}
        campos(id) ==
                  [id |-> id, local |-> local, fecha |-> fecha,
                   scores |-> set.scores,
                   score_global |-> set.score_global,
                   items_evaluados |-> set.items_evaluados,
                   created_at |-> t]
    IN  IF found = {} THEN col \cup {campos(Cardinality(col) + 1)}
        ELSE LET a == CHOOSE x \in found : TRUE
             IN  (col \ {a}) \cup {campos(a.id)}

\* update_one({local, fecha}, {$set: set, $setOnInsert: {created_at}},
\* upsert=True); updated_at, which nothing reads, is left out
UpdateOneUpsert(col, local, fecha, set, t) ==
    LET found == {a \in col : a.local = local /\ a.fecha = fecha}
        campos(id, created) ==
                  [id |-> id, local |-> local, fecha |-> fecha,
                   scores |-> set.scores,
                   score_global |-> set.score_global,
                   items_evaluados |-> set.items_evaluados,
                   created_at |-> created]
    IN  IF found = {} THEN col \cup {campos(Cardinality(col) + 1, t)}
        ELSE LET a == CHOOSE x \in found : TRUE
             IN  (col \ {a}) \cup {campos(a.id, a.created_at)}

\* the insert of an upsert on a collection without the unique index
InsertUpsert_SinIndice(col, local, fecha, set, t) ==
    [ok |-> TRUE,
     col |-> col \cup {[id |-> Cardinality(col) + 1, local |-> local,
                        fecha |-> fecha, scores |-> set.scores,
                        score_global |-> set.score_global,
                        items_evaluados |-> set.items_evaluados,
                        created_at |-> t]}]

\* the insert of an upsert whose query matched nothing, under the unique
\* index on (local, fecha) that _auditorias_col creates: a duplicate key is
\* rejected
InsertUpsert(col, local, fecha, set, t) ==
    IF \E a \in col : a.local = local /\ a.fecha = fecha
    THEN [ok |-> FALSE, col |-> col]
    ELSE [ok |-> TRUE,
          col |-> col \cup {[id |-> Cardinality(col) + 1, local |-> local,
                             fecha |-> fecha, scores |-> set.scores,
                             score_global |-> set.score_global,
                             items_evaluados |-> set.items_evaluados,
                             created_at |-> t]}]

\* ------------------------------------------------------------ state
Users == {"u1", "u2"}
\* history of upsert_auditoria: the key of the latest call and how many
\* calls (counted up to 2) were made for it since the last Evaluation was
\* written
NoUpserts == [local |-> "", fecha |-> 0, n |-> 0]

\* a script run of the operator inbox between its read of the Deviations and
\* its writes: the clicked Deviation, its estado as read (d["estado"]), and
\* the submitted widget values
Idle == [pc |-> "idle", did |-> 0, d_estado |-> "", estado |-> "",
         limite |-> None, comentario |-> ""]

\* a session of the page Auditoria IA: the selected criterion
\* (aud_criterion), st.session_state.results, and its analysis loop: the
\* criterion and location the loop runs for, past_corrections (the ids of
\* the Corrections read before the loop, out of the leidas Corrections
\* stored then), the number of photos, the photo in turn and what was
\* reported for each photo
NoBatch == [pc |-> "idle", criterion |-> "B.4", results |-> <<>>,
            item_id |-> "", local |-> "", past |-> {}, leidas |-> 0,
            n |-> 0, i |-> 0, reportes |-> <<>>]

\* a call of create_desvio between its count and its insert
NoCreate == [pc |-> "idle", local |-> "", item_codigo |-> "", veces |-> 0]

\* a call of upsert_auditoria on its way: the fields it will $set, its
\* now, and whether the query of its update_one found the document
NoUp == [pc |-> "idle", local |-> "", fecha |-> 0,
         set |-> [scores |-> <<>>, score_global |-> 0, items_evaluados |-> 0],
         t |-> 0, found |-> FALSE]

\* no page has run yet
NoPantalla == [pagina |-> "", resultado |-> "", disponible |-> TRUE]

\* the datastore is configured and reachable, no client is cached yet
InitMas ==
    /\ pantalla = NoPantalla
    /\ conectado = TRUE
    /\ cache = FALSE
    /\ uri = TRUE

Init ==
    /\ now = 0
    /\ desvios = <<>>
    /\ decisiones = <<>>
    /\ audit_results = <<>>
    /\ auditorias = {}
    /\ upserts = NoUpserts
    /\ runs = [u \in Users |-> Idle]
    /\ corrections = <<>>
    /\ photos = <<>>
    /\ batch = NoBatch
    /\ respuesta = <<>>
    /\ creates = [u \in Users |-> NoCreate]
    /\ ups = [u \in Users |-> NoUp]
    /\ InitMas

\* the clock advances
Tick ==
    /\ now + TickDays <= MaxDay
    /\ now' = now + TickDays
    /\ UNCHANGED <<desvios, decisiones, audit_results, auditorias, upserts, runs, otras, mas>>

\* db.create_desvio(local, item_codigo, ...)
CreateDesvio(local, item_codigo) ==
    /\ Len(desvios) < MaxDesvios
    /\ desvios' = Append(desvios, NewDesvio(desvios, now, local, item_codigo))
    /\ UNCHANGED <<now, decisiones, audit_results, auditorias, upserts, runs, otras, mas>>

\* ------------------------------------- Planes de Mejora, vista operativa
\* the inbox without its filter on the open states
Activos_Todos(col) == DOMAIN col

\* the Deviations the inbox renders widgets and buttons for
Activos(col) == {i \in DOMAIN col : col[i].estado \in EstadosAbiertos}

\* the dates the date_input "Fecha limite" is submitted with: its initial
\* value (the stored limit, else today + 7 days) or today
LimitChoices(col, t, did) ==
    {IF col[did].fecha_limite # None THEN col[did].fecha_limite
                                     ELSE t + DefaultLimitDays}

\* the writes of "Guardar cambios": update_desvio, then close_desvio when
\* the selected estado is cumplido
GuardarWrites(col, t, did, new_estado, new_limit) ==
    LET c1 == UpdateDesvio(col, t, did,
                  [estado |-> new_estado, responsable |-> "",
                   fecha_limite |-> new_limit])
    IN  IF new_estado = "cumplido"
        THEN CloseDesvio(c1, t, did, "Cerrado desde bandeja")
        ELSE c1

\* button "Guardar cambios" of an active Deviation, one whole script run
GuardarCambios(did, new_estado) ==
    /\ did \in Activos(desvios)
    /\ \E new_limit \in LimitChoices(desvios, now, did) :
          desvios' = GuardarWrites(desvios, now, did, new_estado, new_limit)
    /\ UNCHANGED <<now, decisiones, audit_results, auditorias, upserts, runs, otras, mas>>

\* the comment passed on as typed, without the placeholder
ComentarioCierre_Raw(comentario) == comentario

\* comentario or "Sin comentario"
ComentarioCierre(comentario) ==
    IF comentario = "" THEN "Sin comentario" ELSE comentario

\* the close handler without its test of tipo_desvio
CerrarDesvio_Siempre(did, comentario) ==
    /\ did \in Activos(desvios)
    /\ desvios[did].estado # "cumplido"
    /\ desvios' = CloseDesvio(desvios, now, did, ComentarioCierre(comentario))
    /\ Len(decisiones) < MaxDecisiones
    /\ decisiones' = Append(decisiones, NewDecision(desvios, did))
    /\ UNCHANGED <<now, audit_results, auditorias, upserts, runs, otras, mas>>

\* button "Cerrar desvio" of an active Deviation, one whole script run
CerrarDesvio(did, comentario) ==
    /\ did \in Activos(desvios)
    /\ desvios[did].estado # "cumplido"
    /\ desvios' = CloseDesvio(desvios, now, did, ComentarioCierre(comentario))
    /\ IF desvios[did].tipo_desvio = "estructural"
       THEN /\ Len(decisiones) < MaxDecisiones
            /\ decisiones' = Append(decisiones, NewDecision(desvios, did))
       ELSE decisiones' = decisiones
    /\ UNCHANGED <<now, audit_results, auditorias, upserts, runs, otras, mas>>

\* ------------------------------------- Planes de Mejora, control semanal
\* MongoClient(uri, serverSelectionTimeoutMS=5000) is built without
\* tz_aware, so every datetime read back from the datastore is naive
TzAware == FALSE

\* get_desvios_por_vencer without its filter on the open states
GetDesviosPorVencer_Cerrados(col, t, local, days) ==
    {i \in GetDesvios(col, local) :
        /\ col[i].fecha_limite # None
        /\ col[i].fecha_limite <= t + days}

\* get_desvios_por_vencer(local, days): open Deviations with a fecha_limite
\* not later than now + days
GetDesviosPorVencer(col, t, local, days) ==
    {i \in GetDesvios(col, local) :
        /\ col[i].estado \in EstadosAbiertos
        /\ col[i].fecha_limite # None
        /\ col[i].fecha_limite <= t + days}

\* button "Revision de miercoles".  The tab first splits por_vencer with
\* d["fecha_limite"] < datetime.now(timezone.utc); on a naive fecha_limite
\* that comparison raises TypeError, which ends the script run before the
\* button is drawn, and with an empty por_vencer the button is not drawn
\* either.  The handler is therefore never enabled and is part of no
\* specification below.
RevisionDeMiercoles(filtro) ==
    LET por_vencer == GetDesviosPorVencer(desvios, now, filtro, ControlDays)
    IN  /\ por_vencer # {}
        /\ TzAware
        /\ desvios' = [i \in DOMAIN desvios |->
                          IF i \in por_vencer /\ desvios[i].fecha_limite < now
                          THEN [desvios[i] EXCEPT !.estado = "incumplido"]
                          ELSE desvios[i]]
        /\ UNCHANGED <<now, decisiones, audit_results, auditorias, upserts, runs, otras, mas>>

\* ------------------------------------- Planes de Mejora, vista ejecutiva
\* button "Crear decision para ..." : offered only while the filtered list
\* of pending Decisions is empty, for open structural Deviations
CrearDecision(filtro, did) ==
    /\ GetDecisionesPendientes(decisiones, filtro) = {}
    /\ did \in GetDesvios(desvios, filtro)
    /\ desvios[did].tipo_desvio = "estructural"
    /\ desvios[did].estado \in EstadosAbiertos
    /\ Len(decisiones) < MaxDecisiones
    /\ decisiones' = Append(decisiones, NewDecision(desvios, did))
    /\ UNCHANGED <<now, desvios, audit_results, auditorias, upserts, runs, otras, mas>>

\* button "Guardar decision" of a pending Decision
GuardarDecision(k, propuesta, estado_dec) ==
    /\ k \in GetDecisionesPendientes(decisiones, Todos)
    /\ decisiones' = [decisiones EXCEPT ![k].propuesta = propuesta,
                                        ![k].estado_decision = estado_dec]
    /\ UNCHANGED <<now, desvios, audit_results, auditorias, upserts, runs, otras, mas>>

Comentarios == {"", "Resuelto"}
Propuestas == {"Capacitar"}

\* the recurrence counter: detections over time
NextRec ==
    \/ Tick
    \/ \E l \in LOCALES, i \in Items : CreateDesvio(l, i)

SpecRec == Init /\ [][NextRec]_vars

\* the page Planes de Mejora, each click one whole script run
Next ==
    \/ \E l \in LOCALES : CreateDesvio(l, "B.4")
    \/ \E d \in DOMAIN desvios, e \in Range(ESTADOS_DESVIO) : GuardarCambios(d, e)
    \/ \E d \in DOMAIN desvios, c \in Comentarios : CerrarDesvio(d, c)
    \/ \E f \in LOCALES \cup {Todos}, d \in DOMAIN desvios : CrearDecision(f, d)
    \/ \E k \in DOMAIN decisiones, p \in Propuestas, e \in EstadosDecision :
          GuardarDecision(k, p, e)

Spec == Init /\ [][Next]_vars

\* ------------------- the operator inbox, one database call per step
\* A click reruns the script: it reads the Deviations (get_desvios), renders
\* the buttons of the active ones, and the clicked button's handler then
\* issues its writes one database call at a time; other sessions' calls may
\* fall between them.
IniciarGuardar(u, did, new_estado) ==
    /\ runs[u].pc = "idle"
    /\ did \in Activos(desvios)
    /\ \E new_limit \in LimitChoices(desvios, now, did) :
          runs' = [runs EXCEPT ![u] =
                    [pc |-> "guardar_update", did |-> did,
                     d_estado |-> desvios[did].estado, estado |-> new_estado,
                     limite |-> new_limit, comentario |-> ""]]
    /\ UNCHANGED <<now, desvios, decisiones, audit_results, auditorias, upserts, otras, mas>>

\* db.update_desvio(did, updates) of "Guardar cambios"
GuardarUpdate(u) ==
    /\ runs[u].pc = "guardar_update"
    /\ desvios' = UpdateDesvio(desvios, now, runs[u].did,
                      [estado |-> runs[u].estado, responsable |-> "",
                       fecha_limite |-> runs[u].limite])
    /\ runs' = [runs EXCEPT ![u] =
                  IF runs[u].estado = "cumplido"
                  THEN [runs[u] EXCEPT !.pc = "guardar_close"] ELSE Idle]
    /\ UNCHANGED <<now, decisiones, audit_results, auditorias, upserts, otras, mas>>

\* db.close_desvio(did, "Cerrado desde bandeja") of "Guardar cambios"
GuardarClose(u) ==
    /\ runs[u].pc = "guardar_close"
    /\ desvios' = CloseDesvio(desvios, now, runs[u].did, "Cerrado desde bandeja")
    /\ runs' = [runs EXCEPT ![u] = Idle]
    /\ UNCHANGED <<now, decisiones, audit_results, auditorias, upserts, otras, mas>>

IniciarCerrar(u, did, comentario) ==
    /\ runs[u].pc = "idle"
    /\ did \in Activos(desvios)
    /\ desvios[did].estado # "cumplido"
    /\ runs' = [runs EXCEPT ![u] =
                  [pc |-> "cerrar_close", did |-> did,
                   d_estado |-> desvios[did].estado, estado |-> "",
                   limite |-> None, comentario |-> comentario]]
    /\ UNCHANGED <<now, desvios, decisiones, audit_results, auditorias, upserts, otras, mas>>

\* db.close_desvio(did, comentario or "Sin comentario") of "Cerrar desvio"
CerrarClose(u) ==
    /\ runs[u].pc = "cerrar_close"
    /\ desvios' = CloseDesvio(desvios, now, runs[u].did,
                              ComentarioCierre(runs[u].comentario))
    /\ runs' = [runs EXCEPT ![u] =
                  IF desvios[runs[u].did].tipo_desvio = "estructural"
                  THEN [runs[u] EXCEPT !.pc = "cerrar_decision"] ELSE Idle]
    /\ UNCHANGED <<now, decisiones, audit_results, auditorias, upserts, otras, mas>>

\* db.create_decision(did, ...) of "Cerrar desvio"
CerrarDecision(u) ==
    /\ runs[u].pc = "cerrar_decision"
    /\ Len(decisiones) < MaxDecisiones
    /\ decisiones' = Append(decisiones, NewDecision(desvios, runs[u].did))
    /\ runs' = [runs EXCEPT ![u] = Idle]
    /\ UNCHANGED <<now, desvios, audit_results, auditorias, upserts, otras, mas>>

\* the collection after two detections of B.4 at Edén that were both closed
\* with "Cerrar desvio" (a state Spec reaches): the next detection is the
\* third within the window
DosCerrados ==
    LET c1 == <<NewDesvio(<<>>, 0, "Edén", "B.4")>>
        c2 == Append(c1, NewDesvio(c1, 0, "Edén", "B.4"))
    IN  CloseDesvio(CloseDesvio(c2, 0, 1, "Resuelto"), 0, 2, "Resuelto")

InitConc ==
    /\ now = 0
    /\ desvios = DosCerrados
    /\ decisiones = <<>>
    /\ audit_results = <<>>
    /\ auditorias = {}
    /\ upserts = NoUpserts
    /\ runs = [u \in Users |-> Idle]
    /\ corrections = <<>>
    /\ photos = <<>>
    /\ batch = NoBatch
    /\ respuesta = <<>>
    /\ creates = [u \in Users |-> NoCreate]
    /\ ups = [u \in Users |-> NoUp]
    /\ InitMas

NextConc ==
    \/ CreateDesvio("Edén", "B.4")
    \/ \E u \in Users, d \in DOMAIN desvios, e \in Range(ESTADOS_DESVIO) :
          IniciarGuardar(u, d, e)
    \/ \E u \in Users : GuardarUpdate(u)
    \/ \E u \in Users : GuardarClose(u)
    \/ \E u \in Users, d \in DOMAIN desvios, c \in Comentarios :
          IniciarCerrar(u, d, c)
    \/ \E u \in Users : CerrarClose(u)
    \/ \E u \in Users : CerrarDecision(u)

SpecConc == InitConc /\ [][NextConc]_vars

\* ------------------------------------------------ Auditoria IA / scores
\* one iteration of the analysis loop with the datastore connected and a
\* location selected: analyze_photo returns a verdict with this status and
\* save_audit_result stores it under the current period
AnalyzePhoto(local, item_id, status) ==
    /\ Len(audit_results) < MaxResults
    /\ audit_results' = Append(audit_results,
                               NewResult(local, Period(now), item_id,
                                         Veredicto(status)))
    /\ upserts' = NoUpserts
    /\ UNCHANGED <<now, desvios, decisiones, auditorias, runs, otras, mas>>

\* db.upsert_auditoria(local, fecha, tipo)
UpsertAuditoria(local, fecha) ==
    LET scores == CalculateSectionScores(audit_results, local, fecha)
        results == GetAuditResults(audit_results, local, fecha)
    IN  /\ auditorias' = UpdateOneUpsert(auditorias, local, fecha,
                            [scores |-> scores,
                             score_global |-> ScoreGlobal(scores),
                             items_evaluados |-> Cardinality(results)], now)
        /\ upserts' = [local |-> local, fecha |-> fecha,
                        n |-> IF upserts.local = local /\ upserts.fecha = fecha
                                 /\ upserts.n > 0
                              THEN 2 ELSE 1]
        /\ UNCHANGED <<now, desvios, decisiones, audit_results, runs, otras, mas>>

\* the clock of the scoring runs
TickAudit ==
    /\ now < MaxDayAudit
    /\ Tick

\* the analysis loop over time
NextEval ==
    \/ Tick
    \/ \E l \in LOCALES, i \in Items, st \in STATUSES : AnalyzePhoto(l, i, st)

SpecEval == Init /\ [][NextEval]_vars

\* an audit of Edén and the summaries of both locations
NextAudit ==
    \/ TickAudit
    \/ \E i \in Items, st \in STATUSES : AnalyzePhoto("Edén", i, st)
    \/ \E l \in LOCALES, f \in 0..Period(now) : UpsertAuditoria(l, f)

SpecAudit == Init /\ [][NextAudit]_vars

\* ------------------------------------------------- corrections
\* the document save_correction inserts
NewCorrection(item_id, ai_status, corrected_status, correction_notes, t) ==
    [ item_id          |-> item_id,
      ai_status        |-> ai_status,
      corrected_status |-> corrected_status,
      correction_notes |-> correction_notes,
      created_at       |-> t ]

\* get_corrections_for_item without the item_id filter
GetCorrectionsForItem_AnyItem(col, item_id, limit) ==
    LET k == IF Len(col) < limit THEN Len(col) ELSE limit
    IN  {S \in SUBSET DOMAIN col :
            /\ Cardinality(S) = k
            /\ \A c \in S, d \in DOMAIN col \ S :
                  col[c].created_at >= col[d].created_at}

\* get_corrections_for_item(item_id, limit): find item_id, sort created_at
\* descending, limit.  The value is the set of the results the datastore
\* may return (documents with equal created_at come in any order), each the
\* set of the ids returned; their order in the list is left out.
GetCorrectionsForItem(col, item_id, limit) ==
    LET found == {c \in DOMAIN col : col[c].item_id = item_id}
        k == IF Cardinality(found) < limit THEN Cardinality(found) ELSE limit
    IN  {S \in SUBSET found :
            /\ Cardinality(S) = k
            /\ \A c \in S, d \in found \ S :
                  col[c].created_at >= col[d].created_at}

\* ------------------------------------------ Auditoria IA, tab Auditar
\* the clock of the sessions that analyse and correct
TickCorr ==
    /\ now < MaxDayCorr
    /\ Tick

\* The sidebar reads r["result"]["status"] of every result of the session
\* before anything else of the page is drawn: a result that is no dict or
\* has no status ends every later script run of the session there.
SidebarRinde(results) ==
    \A k \in DOMAIN results :
        /\ results[k].result.tipo = "dict"
        /\ "status" \in DOMAIN results[k].result.d

\* button "Analizar con IA" up to the loop: the sidebar's location and
\* criterion, n photos to analyse, past_corrections read once
IniciarAnalisis(local, item, n) ==
    /\ batch.pc = "idle"
    /\ SidebarRinde(batch.results)
    /\ Len(batch.results) + n <= MaxResults
    /\ \E past \in GetCorrectionsForItem(corrections, item, CorrectionsLimit) :
          batch' = [batch EXCEPT !.pc = "loop", !.criterion = item,
                                 !.item_id = item, !.local = local,
                                 !.past = past, !.leidas = Len(corrections),
                                 !.n = n, !.i = 1, !.reportes = <<>>]
    /\ UNCHANGED <<now, desvios, decisiones, audit_results, auditorias, upserts,
                   runs, corrections, photos, respuesta, creates, ups, mas>>

\* what one iteration reports for its photo: st.error, st.warning, and
\* whether its Evaluation was stored
Reporte(error, warning, saved) ==
    [error |-> error, warning |-> warning, saved |-> saved]

\* a loop that ends at the first photo whose analysis raises
DespuesDeFoto_Aborta(b, reporte, entries) ==
    [b EXCEPT !.reportes = Append(b.reportes, reporte),
              !.results = b.results \o entries,
              !.i = b.i + 1,
              !.pc = IF b.i = b.n \/ reporte.error THEN "idle" ELSE "loop"]

\* the session after one iteration of the loop: the except clauses report
\* and the for statement goes on to the next photo
DespuesDeFoto(b, reporte, entries) ==
    [b EXCEPT !.reportes = Append(b.reportes, reporte),
              !.results = b.results \o entries,
              !.i = b.i + 1,
              !.pc = IF b.i = b.n THEN "idle" ELSE "loop"]

\* one iteration of the loop.  r is what the classifier call does: it
\* raises (r.error) or answers with the text r.content; falla_db: the
\* insert of save_audit_result raises.
AnalizarFoto(r, falla_db) ==
    /\ batch.pc = "loop"
    /\ Len(audit_results) < MaxResults
    /\ LET a == IF r.error THEN [raises |-> TRUE, value |-> PyOtro]
                 ELSE ParseResponse(r.content)
           guarda == batch.local # ""
           saved == guarda /\ a.value.tipo = "dict" /\ ~falla_db
       IN  IF a.raises
           THEN /\ batch' = DespuesDeFoto(batch, Reporte(TRUE, FALSE, FALSE), <<>>)
                /\ audit_results' = audit_results
           ELSE /\ batch' = DespuesDeFoto(batch,
                                Reporte(a.value.tipo # "dict",
                                        guarda /\ ~saved, saved),
                                <<[item_id |-> batch.item_id, result |-> a.value]>>)
                /\ audit_results' =
                      IF saved
                      THEN Append(audit_results,
                                  NewResult(batch.local, Period(now),
                                            batch.item_id, a.value.d))
                      ELSE audit_results
    /\ upserts' = NoUpserts
    /\ UNCHANGED <<now, desvios, decisiones, auditorias, runs, corrections,
                   photos, respuesta, creates, ups, mas>>

\* save_correction of another session's "Confirmar y siguiente"
OtraSesionCorrige(item_id, ai_status, corrected_status) ==
    /\ Len(corrections) < MaxCorrections
    /\ corrections' = Append(corrections,
                             NewCorrection(item_id, ai_status, corrected_status,
                                           "", now))
    /\ UNCHANGED <<now, desvios, decisiones, audit_results, auditorias, upserts,
                   runs, photos, batch, respuesta, creates, ups, mas>>

\* is_connected(): False without MONGODB_URI; otherwise _connect(uri), which
\* st.cache_resource answers from its cache once a call has succeeded, and
\* which builds a client and pings the server when nothing is cached
IsConnected == uri /\ (cache \/ conectado)

\* the cache after a call of is_connected()
CacheTrasConectar == cache \/ (uri /\ conectado)

\* what a script run showed
Pantalla(pagina, resultado, disponible) ==
    [pagina |-> pagina, resultado |-> resultado, disponible |-> disponible]

\* ---------------------------------------------- the criterion in turn
\* get_criteria_by_section: the ids of the section's criteria in catalog
\* order, over the first k entries of the catalog
RECURSIVE CriteriaBySection(_, _)
CriteriaBySection(section, k) ==
    IF k = 0 THEN <<>>
    ELSE IF CRITERIA[k].section = section
         THEN Append(CriteriaBySection(section, k - 1), CRITERIA[k].id)
         ELSE CriteriaBySection(section, k - 1)

GetCriteriaBySection(section) == CriteriaBySection(section, Len(CRITERIA))

\* list.index(x), 0 when x is not in the list
IndexOf(seq, x) ==
    IF \E k \in DOMAIN seq : seq[k] = x
    THEN CHOOSE k \in DOMAIN seq : seq[k] = x /\ \A j \in 1..(k - 1) : seq[j] # x
    ELSE 0

\* _advance_to_next_item: what it returns and the values of aud_section
\* and aud_criterion it asks st.session_state to hold (the current ones
\* where it assigns nothing).  Every section of the catalog has criteria.
AdvanceToNextItem(current_section, current_criterion) ==
    LET criteria_ids == GetCriteriaBySection(current_section)
        idx == IndexOf(criteria_ids, current_criterion)
        sec_idx == IndexOf(SECTION_KEYS, current_section)
    IN  IF idx > 0 /\ idx + 1 <= Len(criteria_ids)
        THEN [ret |-> TRUE, aud_section |-> current_section,
              aud_criterion |-> criteria_ids[idx + 1]]
        ELSE IF sec_idx + 1 <= Len(SECTION_KEYS)
        THEN LET next_sec == SECTION_KEYS[sec_idx + 1]
                 next_criteria == GetCriteriaBySection(next_sec)
             IN  [ret |-> TRUE, aud_section |-> next_sec,
                  aud_criterion |-> next_criteria[1]]
        ELSE [ret |-> FALSE, aud_section |-> current_section,
              aud_criterion |-> current_criterion]

\* the positions of the session's results of a criterion
ResultadosDe(results, item) ==
    {k \in DOMAIN results : results[k].item_id = item}

\* the save_correction calls of a handler that saves only where the
\* selected status differs from the classifier's
RECURSIVE Correcciones_SoloEstado(_, _, _, _, _)
Correcciones_SoloEstado(results, item, sel, k, t) ==
    IF k > Len(results) THEN <<>>
    ELSE LET ai_status == Get(results[k].result.d, "status", "Observación")
             esta == IF /\ results[k].item_id = item
                        /\ sel[k][1] # ai_status
                     THEN <<NewCorrection(item, ai_status, sel[k][1],
                                          sel[k][2], t)>>
                     ELSE <<>>
         IN  esta \o Correcciones_SoloEstado(results, item, sel, k + 1, t)

\* the save_correction calls of "Confirmar y siguiente" for the results at
\* the positions from k on: one for every result whose selected status
\* differs from the classifier's or that carries a note.  sel[k] is the pair
\* of the widgets corr_status_k and corr_notes_k.
RECURSIVE Correcciones(_, _, _, _, _)
Correcciones(results, item, sel, k, t) ==
    IF k > Len(results) THEN <<>>
    ELSE LET ai_status == Get(results[k].result.d, "status", "Observación")
             esta == IF /\ results[k].item_id = item
                        /\ (sel[k][1] # ai_status \/ sel[k][2] # "")
                     THEN <<NewCorrection(item, ai_status, sel[k][1],
                                          sel[k][2], t)>>
                     ELSE <<>>
         IN  esta \o Correcciones(results, item, sel, k + 1, t)

\* button "Confirmar y siguiente" with the criterion item selected in the
\* sidebar: drawn below the results of the criterion once they have
\* rendered.  The Corrections are saved while is_connected() holds and the
\* insert succeeds (its exceptions are swallowed).  _advance_to_next_item
\* then assigns st.session_state.aud_criterion / aud_section, keys of the
\* sidebar's selectboxes already instantiated in this script run:
\* Streamlit raises StreamlitAPIException on the assignment, the selection
\* stays and st.rerun() is not reached.  At the last criterion of the last
\* section nothing is assigned and the success message is shown.
Confirmar(item, sel) ==
    LET nuevas == IF IsConnected /\ conectado
                  THEN Correcciones(batch.results, item, sel, 1, now)
                  ELSE <<>>
        a == AdvanceToNextItem(SectionOf(item), item)
    IN  /\ batch.pc = "idle"
        /\ ResultadosDe(batch.results, item) # {}
        /\ SidebarRinde(batch.results)
        /\ Len(corrections) + Len(nuevas) <= MaxCorrections
        /\ corrections' = corrections \o nuevas
        /\ batch' = [batch EXCEPT !.criterion = item]
        /\ pantalla' = Pantalla("auditoria",
                                IF a.ret THEN "StreamlitAPIException"
                                ELSE "ultimo item", uri /\ conectado)
        /\ UNCHANGED <<now, desvios, decisiones, audit_results, auditorias,
                       upserts, runs, photos, respuesta, creates, ups,
                       conectado, cache, uri>>

\* what the classifier does in the runs below
Responde(content) == [error |-> FALSE, content |-> content]
NoResponde == [error |-> TRUE, content |-> <<>>]

\* the auditor leaves a verdict or sets it to Observación, without a note
Selecciones == {<<"No Conforme", "">>, <<"Observación", "">>}

\* analyses of MaxFotos photos whose verdict is No Conforme, the auditor's
\* corrections and those of other sessions
NextCorr ==
    \/ TickCorr
    \/ \E i \in Items : IniciarAnalisis("Edén", i, MaxFotos)
    \/ AnalizarFoto(Responde(<<"{No Conforme}">>), FALSE)
    \/ \E i \in Items, sel \in [DOMAIN batch.results -> Selecciones] :
          Confirmar(i, sel)
    \/ \E i \in Items : OtraSesionCorrige(i, "No Conforme", "Observación")

SpecCorr == Init /\ [][NextCorr]_vars

\* ------------------------- analyze_photo over the classifier's responses
\* every text of up to MaxRespuesta tokens
Respuestas == UNION {[1..k -> Tokens] : k \in 0..MaxRespuesta}

InitParse ==
    /\ now = 0
    /\ desvios = <<>>
    /\ decisiones = <<>>
    /\ audit_results = <<>>
    /\ auditorias = {}
    /\ upserts = NoUpserts
    /\ runs = [u \in Users |-> Idle]
    /\ corrections = <<>>
    /\ photos = <<>>
    /\ batch = NoBatch
    /\ respuesta \in Respuestas
    /\ creates = [u \in Users |-> NoCreate]
    /\ ups = [u \in Users |-> NoUp]
    /\ InitMas

\* the iteration whose classifier call answers with the text respuesta
AnalizarRespuesta == AnalizarFoto(Responde(respuesta), FALSE)

\* one photo of B.4 at Edén analysed, the datastore connected
NextParse ==
    \/ IniciarAnalisis("Edén", "B.4", 1)
    \/ AnalizarRespuesta

SpecParse == InitParse /\ [][NextParse]_vars

\* ------------------------------ create_desvio, one database call per step
\* veces = _check_recurrence(local, item_codigo) + 1
CreateCount(u, local, item_codigo) ==
    /\ creates[u].pc = "idle"
    /\ creates' = [creates EXCEPT ![u] =
            [pc |-> "insert", local |-> local, item_codigo |-> item_codigo,
             veces |-> CheckRecurrence(desvios, now, local, item_codigo,
                                       RecurrenceDays) + 1]]
    /\ UNCHANGED <<now, desvios, decisiones, audit_results, auditorias, upserts,
                   runs, corrections, photos, batch, respuesta, ups, mas>>

\* _desvios_col().insert_one(doc)
CreateInsert(u) ==
    /\ creates[u].pc = "insert"
    /\ Len(desvios) < MaxDesvios
    /\ desvios' = Append(desvios,
                         DesvioDoc(now, creates[u].local, creates[u].item_codigo,
                                   creates[u].veces))
    /\ creates' = [creates EXCEPT ![u] = NoCreate]
    /\ UNCHANGED <<now, decisiones, audit_results, auditorias, upserts, runs,
                   corrections, photos, batch, respuesta, ups, mas>>

\* detections of B.4 by two callers over time
NextCreate ==
    \/ Tick
    \/ \E u \in Users, l \in LOCALES : CreateCount(u, l, "B.4")
    \/ \E u \in Users : CreateInsert(u)

SpecCreate == Init /\ [][NextCreate]_vars

\* --------------------------- upsert_auditoria, one database call per step
\* scores = calculate_section_scores(local, fecha), score_global
UpsertScores(u, local, fecha) ==
    LET scores == CalculateSectionScores(audit_results, local, fecha)
    IN  /\ ups[u].pc = "idle"
        /\ ups' = [ups EXCEPT ![u] =
                [pc |-> "results", local |-> local, fecha |-> fecha,
                 set |-> [scores |-> scores,
                          score_global |-> ScoreGlobal(scores),
                          items_evaluados |-> 0],
                 t |-> 0, found |-> FALSE]]
        /\ UNCHANGED <<now, desvios, decisiones, audit_results, auditorias,
                       upserts, runs, corrections, photos, batch, respuesta,
                       creates, mas>>

\* results = get_audit_results(local, fecha); now = datetime.now(...)
UpsertResults(u) ==
    /\ ups[u].pc = "results"
    /\ ups' = [ups EXCEPT ![u].pc = "query",
                          ![u].set.items_evaluados =
                              Cardinality(GetAuditResults(audit_results,
                                              ups[u].local, ups[u].fecha)),
                          ![u].t = now]
    /\ UNCHANGED <<now, desvios, decisiones, audit_results, auditorias,
                   upserts, runs, corrections, photos, batch, respuesta,
                   creates, mas>>

\* update_one(..., upsert=True) in the datastore, the query: does a
\* document of (local, fecha) exist
UpsertQuery(u) ==
    /\ ups[u].pc = "query"
    /\ ups' = [ups EXCEPT ![u].pc = "write",
                          ![u].found = \E a \in auditorias :
                                          /\ a.local = ups[u].local
                                          /\ a.fecha = ups[u].fecha]
    /\ UNCHANGED <<now, desvios, decisiones, audit_results, auditorias,
                   upserts, runs, corrections, photos, batch, respuesta,
                   creates, mas>>

\* update_one(..., upsert=True) in the datastore, the write: the $set on
\* the document found, else the insert.  An insert the unique index rejects
\* is retried by the datastore as an update or ends the call with
\* DuplicateKeyError, depending on the server (reintenta).
UpsertWrite(u, reintenta) ==
    LET c == ups[u]
        ins == InsertUpsert(auditorias, c.local, c.fecha, c.set, c.t)
    IN  /\ c.pc = "write"
        /\ auditorias' =
              IF c.found \/ (~ins.ok /\ reintenta)
              THEN UpdateOneUpsert(auditorias, c.local, c.fecha, c.set, c.t)
              ELSE ins.col
        /\ ups' = [ups EXCEPT ![u] = NoUp]
        /\ upserts' = NoUpserts
        /\ UNCHANGED <<now, desvios, decisiones, audit_results, runs,
                       corrections, photos, batch, respuesta, creates, mas>>

\* Evaluations of B.4 at Edén and two callers of upsert_auditoria
NextUpsert ==
    \/ TickAudit
    \/ \E st \in {"Conforme", "No Conforme"} : AnalyzePhoto("Edén", "B.4", st)
    \/ \E u \in Users, l \in LOCALES : UpsertScores(u, l, Period(now))
    \/ \E u \in Users : UpsertResults(u)
    \/ \E u \in Users : UpsertQuery(u)
    \/ \E u \in Users, reintenta \in BOOLEAN : UpsertWrite(u, reintenta)

SpecUpsert == Init /\ [][NextUpsert]_vars

\* ---------------------------------------------- the analysis loop alone
\* what the classifier does for a photo: it raises, or answers with a
\* verdict, a lone fence, prose, or a JSON list
RespuestasLoop ==
    {NoResponde, Responde(<<"{Conforme}">>), Responde(<<Fence>>),
     Responde(<<Prosa>>), Responde(<<"[]">>)}

\* batches of B.4 at Edén, every photo free to fail in the classifier, in
\* the parsing or in the datastore
NextLoop ==
    \/ \E n \in 1..MaxFotos : IniciarAnalisis("Edén", "B.4", n)
    \/ \E r \in RespuestasLoop, falla_db \in BOOLEAN : AnalizarFoto(r, falla_db)

SpecLoop == Init /\ [][NextLoop]_vars

\* ------------------------------------------------------------- photos
\* the document save_photo inserts
NewPhoto(local, fecha, item_id, photo_name, t) ==
    [ local      |-> local,
      fecha      |-> fecha,
      item_id    |-> item_id,
      photo_name |-> photo_name,
      created_at |-> t ]

\* next_photo_name: the number after the count of the item's photos
NextPhotoName(col, local, fecha, item_id) ==
    Cardinality({k \in DOMAIN col :
                    /\ col[k].local = local
                    /\ col[k].fecha = fecha
                    /\ col[k].item_id = item_id}) + 1

\* the sequence s without its elements at the positions of D
RECURSIVE Sin(_, _)
Sin(s, D) ==
    IF s = <<>> THEN <<>>
    ELSE LET resto == Sin(SubSeq(s, 1, Len(s) - 1), D)
         IN  IF Len(s) \in D THEN resto ELSE Append(resto, s[Len(s)])

\* Captura, button "Guardar foto" of the camera tab
GuardarFoto(local, item_id) ==
    /\ Len(photos) < MaxPhotos
    /\ photos' = Append(photos,
                        NewPhoto(local, Period(now), item_id,
                                 NextPhotoName(photos, local, Period(now), item_id),
                                 now))
    /\ UNCHANGED <<now, desvios, decisiones, audit_results, auditorias, upserts,
                   runs, corrections, batch, respuesta, creates, ups, mas>>

\* Captura, the bin button of a photo: delete_photo(_id)
BorrarFoto(k) ==
    /\ k \in DOMAIN photos
    /\ photos' = Sin(photos, {k})
    /\ UNCHANGED <<now, desvios, decisiones, audit_results, auditorias, upserts,
                   runs, corrections, batch, respuesta, creates, ups, mas>>

\* a cleanup that purges the Evaluations along with the photos
CleanupOldPhotos_YResultados(months) ==
    /\ photos' = Sin(photos, {k \in DOMAIN photos :
                        photos[k].created_at < now - months * DaysPerMonth})
    /\ audit_results' = <<>>
    /\ UNCHANGED <<now, desvios, decisiones, auditorias, upserts,
                   runs, corrections, batch, respuesta, creates, ups, mas>>

\* Historial, button "Limpiar fotos antiguas": cleanup_old_photos(months)
\* deletes the photos created before now - months * 30 days
CleanupOldPhotos(months) ==
    /\ photos' = Sin(photos, {k \in DOMAIN photos :
                        photos[k].created_at < now - months * DaysPerMonth})
    /\ UNCHANGED <<now, desvios, decisiones, audit_results, auditorias, upserts,
                   runs, corrections, batch, respuesta, creates, ups, mas>>

\* the months the number_input offers: its minimum and its default
Meses == {1, 6}

\* a photo of B.4 at Edén taken on day 0, MaxDay days ago
InitDatos ==
    /\ now = MaxDay
    /\ desvios = <<>>
    /\ decisiones = <<>>
    /\ audit_results = <<>>
    /\ auditorias = {}
    /\ upserts = NoUpserts
    /\ runs = [u \in Users |-> Idle]
    /\ corrections = <<>>
    /\ photos = <<NewPhoto("Edén", Period(0), "B.4", 1, 0)>>
    /\ batch = NoBatch
    /\ respuesta = <<>>
    /\ creates = [u \in Users |-> NoCreate]
    /\ ups = [u \in Users |-> NoUp]
    /\ InitMas

\* save_correction while few Corrections are stored
CorregirPocas ==
    /\ Len(corrections) < MaxPhotos
    /\ OtraSesionCorrige("B.4", "No Conforme", "Observación")

\* save_audit_result while few Evaluations are stored
EvaluarPocas ==
    /\ Len(audit_results) < MaxPhotos
    /\ AnalyzePhoto("Edén", "B.4", "No Conforme")

\* the Deviations the buttons of Planes de Mejora are pressed on here
Estructurales ==
    {d \in DOMAIN desvios : desvios[d].tipo_desvio = "estructural"}

\* every operation that writes to the datastore, on B.4 at Edén
NextDatos ==
    \/ EvaluarPocas
    \/ CorregirPocas
    \/ GuardarFoto("Edén", "B.4")
    \/ \E k \in DOMAIN photos : BorrarFoto(k)
    \/ \E months \in Meses : CleanupOldPhotos(months)
    \/ UpsertAuditoria("Edén", Period(now))
    \/ CreateDesvio("Edén", "B.4")
    \/ \E d \in Estructurales : GuardarCambios(d, "en_proceso")
    \/ \E d \in Estructurales : CerrarDesvio(d, "Resuelto")
    \/ \E d \in Estructurales : CrearDecision(Todos, d)
    \/ \E k \in DOMAIN decisiones : GuardarDecision(k, "Capacitar", "aprobado")

SpecDatos == InitDatos /\ [][NextDatos]_vars

\* ---------------------------------- Planes de Mejora, tab Control Semanal
\* cursor.sort("fecha_limite", 1): the ids of S by ascending fecha_limite
RECURSIVE SortByLimite(_, _)
SortByLimite(col, S) ==
    IF S = {} THEN <<>>
    ELSE LET m == CHOOSE i \in S :
                    \A j \in S :
                       \/ col[i].fecha_limite < col[j].fecha_limite
                       \/ (col[i].fecha_limite = col[j].fecha_limite /\ i <= j)
         IN  <<m>> \o SortByLimite(col, S \ {m})

\* the list get_desvios_por_vencer returns
PorVencer(col, t, local, days) ==
    SortByLimite(col, GetDesviosPorVencer(col, t, local, days))

\* the Deviations the click of "Revision de miercoles" leaves behind
Revisados(col, t, por_vencer) ==
    [i \in DOMAIN col |->
        IF i \in por_vencer /\ col[i].fecha_limite < t
        THEN UpdateDesvio(col, t, i, [estado |-> "incumplido"])[i]
        ELSE col[i]]

\* a script run of the operative view in which the operator goes to the
\* tab Control Semanal to press "Revision de miercoles".  With Deviations
\* in por_vencer the tab compares their fecha_limite with
\* datetime.now(timezone.utc) before it draws the button: on the naive
\* datetimes the client returns that raises TypeError and the run ends.
\* With no Deviation in por_vencer the tab shows a success message and no
\* button.
ControlSemanal(filtro) ==
    LET por_vencer == GetDesviosPorVencer(desvios, now, filtro, ControlDays)
    IN  /\ conectado
        /\ cache' = TRUE
        /\ IF por_vencer = {}
           THEN /\ pantalla' = Pantalla("control", "sin desvios", TRUE)
                /\ desvios' = desvios
           ELSE IF ~TzAware
           THEN /\ pantalla' = Pantalla("control", "TypeError", TRUE)
                /\ desvios' = desvios
           ELSE /\ pantalla' = Pantalla("control", "revisado", TRUE)
                /\ desvios' = Revisados(desvios, now, por_vencer)
        /\ UNCHANGED <<now, decisiones, audit_results, auditorias, upserts,
                       runs, otras, conectado, uri>>

\* the values of the sidebar's "Filtrar local"
Filtros == LOCALES \cup {Todos}

\* the clock advances over the weeks the control is watched for
PasaElTiempo ==
    /\ now + TickDays <= MaxDayControl
    /\ Tick

\* the detections of day 0
DetectarAlInicio(local) ==
    /\ now = 0
    /\ CreateDesvio(local, "B.4")

\* Deviations get their limits in the inbox, time passes, the operator goes
\* to the weekly control
NextControl ==
    \/ PasaElTiempo
    \/ \E l \in LOCALES : DetectarAlInicio(l)
    \/ \E d \in DOMAIN desvios, e \in Range(ESTADOS_DESVIO) : GuardarCambios(d, e)
    \/ \E f \in Filtros : ControlSemanal(f)

SpecControl == Init /\ [][NextControl]_vars

\* ------------------------------------------- pages without a datastore
\* a script run of a page that starts with the guard on is_connected() and
\* then reads from the datastore: the warning and st.stop(), or the reads,
\* which raise when the server cannot be reached
PaginaConGuarda(pagina) ==
    /\ pantalla' = Pantalla(pagina,
                            IF ~IsConnected THEN "warning"
                            ELSE IF conectado THEN "ok" ELSE "excepcion",
                            uri /\ conectado)
    /\ cache' = CacheTrasConectar

\* script run of the page Historial: guard, then get_audit_history()
PaginaHistorial ==
    /\ PaginaConGuarda("historial")
    /\ UNCHANGED <<now, desvios, decisiones, audit_results, auditorias,
                   upserts, runs, otras, conectado, uri>>

\* script run of the page Planes de Mejora: guard, then get_desvio_kpis()
PaginaMejoras ==
    /\ PaginaConGuarda("mejoras")
    /\ UNCHANGED <<now, desvios, decisiones, audit_results, auditorias,
                   upserts, runs, otras, conectado, uri>>

\* the server goes down or comes back
CambiaRed ==
    /\ conectado' = ~conectado
    /\ UNCHANGED <<now, desvios, decisiones, audit_results, auditorias,
                   upserts, runs, otras, pantalla, cache, uri>>

\* a detection stored while the datastore can be reached
DetectarConectado(local) ==
    /\ uri /\ conectado
    /\ CreateDesvio(local, "B.4")

\* a deployment with or without MONGODB_URI, its server up or down
InitRed ==
    /\ now = 0
    /\ desvios = <<>>
    /\ decisiones = <<>>
    /\ audit_results = <<>>
    /\ auditorias = {}
    /\ upserts = NoUpserts
    /\ runs = [u \in Users |-> Idle]
    /\ corrections = <<>>
    /\ photos = <<>>
    /\ batch = NoBatch
    /\ respuesta = <<>>
    /\ creates = [u \in Users |-> NoCreate]
    /\ ups = [u \in Users |-> NoUp]
    /\ pantalla = NoPantalla
    /\ cache = FALSE
    /\ conectado \in BOOLEAN
    /\ uri \in BOOLEAN

NextRed ==
    \/ PaginaHistorial
    \/ PaginaMejoras
    \/ CambiaRed
    \/ \E l \in LOCALES : DetectarConectado(l)

SpecRed == InitRed /\ [][NextRed]_vars

\* ------------------------------------------------ update_desvio called
\* db.update_desvio(desvio_id, {"estado": estado}) on any stored Deviation
LlamarUpdateDesvio(did, estado) ==
    /\ did \in DOMAIN desvios
    /\ desvios' = UpdateDesvio(desvios, now, did, [estado |-> estado])
    /\ UNCHANGED <<now, decisiones, audit_results, auditorias, upserts, runs,
                   otras, mas>>

\* Deviations of B.4 at Edén, closed in the inbox and updated at will
NextUpdate ==
    \/ PasaElTiempo
    \/ DetectarAlInicio("Edén")
    \/ \E d \in DOMAIN desvios : CerrarDesvio(d, "")
    \/ \E d \in DOMAIN desvios, e \in Range(ESTADOS_DESVIO) :
          LlamarUpdateDesvio(d, e)

SpecUpdate == Init /\ [][NextUpdate]_vars

\* ----------------------------------------- confirming criterion by criterion
\* what the auditor leaves in the widgets of a result whose verdict is No
\* Conforme: nothing, another status, or only a note
SeleccionesNota ==
    {<<"No Conforme", "">>, <<"Observación", "">>, <<"No Conforme", "nota">>}

\* "Confirmar y siguiente" while few Corrections are stored
ConfirmarPocas(item, sel) ==
    /\ Len(corrections) < MaxPhotos
    /\ Confirmar(item, sel)

\* "Analizar con IA" on one photo while the session holds few results
AnalizarPocas(item) ==
    /\ Len(batch.results) < MaxPhotos
    /\ IniciarAnalisis("Edén", item, 1)

\* one photo at a time of any criterion of the catalog, each confirmed or
\* not
NextNav ==
    \/ \E i \in CriteriaIds : AnalizarPocas(i)
    \/ AnalizarFoto(Responde(<<"{No Conforme}">>), FALSE)
    \/ \E i \in CriteriaIds, sel \in [DOMAIN batch.results -> SeleccionesNota] :
          ConfirmarPocas(i, sel)

SpecNav == Init /\ [][NextNav]_vars

\* -------------------------------------- Planes de Mejora, tab Plan Semanal
PRIORIDADES == <<"alta", "media", "baja">>

\* the priorities as the datastore orders their strings
PrioridadesAlfabeticas == <<"alta", "baja", "media">>

\* the first n elements of a sequence: s[:n]
Primeros(s, n) == SubSeq(s, 1, IF Len(s) < n THEN Len(s) ELSE n)

\* get_desvios(local): the matching ids sorted by prioridad ascending (as
\* strings), then fecha_deteccion descending; the datastore fixes no order
\* among equals: by insertion, or reversed when inverso
RECURSIVE SortDesvios(_, _, _)
SortDesvios(col, S, inverso) ==
    IF S = {} THEN <<>>
    ELSE LET antes(i, j) ==
                 LET pi == IndexOf(PrioridadesAlfabeticas, col[i].prioridad)
                     pj == IndexOf(PrioridadesAlfabeticas, col[j].prioridad)
                 IN  \/ pi < pj
                     \/ pi = pj /\ col[i].fecha_deteccion > col[j].fecha_deteccion
                     \/ /\ pi = pj
                        /\ col[i].fecha_deteccion = col[j].fecha_deteccion
                        /\ IF inverso THEN i >= j ELSE i <= j
             m == CHOOSE i \in S : \A j \in S : antes(i, j)
         IN  <<m>> \o SortDesvios(col, S \ {m}, inverso)

\* the second component of the plan's sort key read off the alphabetical
\* order of the priorities
PrioridadKey_Alfabetica(prioridad) ==
    IF IndexOf(PrioridadesAlfabeticas, prioridad) > 0
    THEN IndexOf(PrioridadesAlfabeticas, prioridad) - 1 ELSE 2

\* PRIORIDADES.index(prioridad) if prioridad in PRIORIDADES else 2
PrioridadKey(prioridad) ==
    IF IndexOf(PRIORIDADES, prioridad) > 0
    THEN IndexOf(PRIORIDADES, prioridad) - 1 ELSE 2

\* the key of activos_plan.sort: (0 if reincidente else 1, priority index)
PlanKey(d) == <<IF d.reincidente THEN 0 ELSE 1, PrioridadKey(d.prioridad)>>

\* tuple comparison of two keys
KeyLess(a, b) == a[1] < b[1] \/ (a[1] = b[1] /\ a[2] < b[2])

\* list.sort(key=...): stable, by insertion of the last element into the
\* sorted rest
RECURSIVE SortPlan(_, _)
SortPlan(col, ids) ==
    IF ids = <<>> THEN <<>>
    ELSE LET resto == SortPlan(col, SubSeq(ids, 1, Len(ids) - 1))
             x == ids[Len(ids)]
             n == Cardinality({k \in DOMAIN resto :
                                 ~KeyLess(PlanKey(col[x]), PlanKey(col[resto[k]]))})
         IN  SubSeq(resto, 1, n) \o <<x>> \o SubSeq(resto, n + 1, Len(resto))

\* top10 of the tab: the open Deviations of get_desvios(plan_local), sorted
\* by the key, cut to the first 10
PlanSemanal(col, local, inverso) ==
    LET desvios_plan == SortDesvios(col, GetDesvios(col, local), inverso)
        activos_plan == SelectSeq(desvios_plan,
                                  LAMBDA i : col[i].estado \in EstadosAbiertos)
    IN  Primeros(SortPlan(col, activos_plan), TopPlan)

\* a script run of the operative view looked at in the tab Plan Semanal
VerPlanSemanal(plan_local) ==
    /\ pantalla' = Pantalla("plan",
                            IF PlanSemanal(desvios, plan_local, FALSE) = <<>>
                            THEN "sin desvios" ELSE plan_local, TRUE)
    /\ UNCHANGED <<now, desvios, decisiones, audit_results, auditorias,
                   upserts, runs, otras, conectado, cache, uri>>

\* create_desvio(..., prioridad=prioridad)
CreateDesvioCon(local, item_codigo, prioridad) ==
    /\ Len(desvios) < MaxPlan
    /\ desvios' = Append(desvios,
                         [NewDesvio(desvios, now, local, item_codigo)
                             EXCEPT !.prioridad = prioridad])
    /\ UNCHANGED <<now, decisiones, audit_results, auditorias, upserts, runs,
                   otras, mas>>

\* k detections of B.4 at Edén on day 0
RECURSIVE Detectados(_)
Detectados(k) ==
    IF k = 0 THEN <<>>
    ELSE LET col == Detectados(k - 1)
         IN  Append(col, NewDesvio(col, 0, "Edén", "B.4"))

\* PlanPrevios Deviations of B.4 at Edén are stored
InitPlan ==
    /\ now = 0
    /\ desvios = Detectados(PlanPrevios)
    /\ decisiones = <<>>
    /\ audit_results = <<>>
    /\ auditorias = {}
    /\ upserts = NoUpserts
    /\ runs = [u \in Users |-> Idle]
    /\ corrections = <<>>
    /\ photos = <<>>
    /\ batch = NoBatch
    /\ respuesta = <<>>
    /\ creates = [u \in Users |-> NoCreate]
    /\ ups = [u \in Users |-> NoUp]
    /\ InitMas

\* further detections with any priority, the two oldest Deviations closed
\* or not, the plan looked at
NextPlan ==
    \/ \E l \in LOCALES, i \in Items, p \in Range(PRIORIDADES) :
          CreateDesvioCon(l, i, p)
    \/ \E d \in DOMAIN desvios \cap {1, 2} : CerrarDesvio(d, "")
    \/ \E l \in LOCALES : VerPlanSemanal(l)

SpecPlan == InitPlan /\ [][NextPlan]_vars

\* ==================================================== properties
DecisionesDe(d) == {k \in DOMAIN decisiones : decisiones[k].desvio_id = d}

\* the Deviations of the same (local, item_codigo) inserted before i and
\* detected no more than 60 days before i's detection
Previos60(i) ==
    {j \in 1..(i - 1) :
        /\ desvios[j].local = desvios[i].local
        /\ desvios[j].item_codigo = desvios[i].item_codigo
        /\ desvios[j].fecha_deteccion >= desvios[i].fecha_deteccion - 60}

\* C1: a Deviation is "estructural" iff at least 2 Deviations of the same
\* (local, item_codigo) detected within the 60 days before it existed when
\* it was created, and "operativo" otherwise; Deviations of other locations,
\* of other items, or older than 60 days do not count.
C1_TipoDesvio ==
    \A i \in DOMAIN desvios :
        /\ desvios[i].tipo_desvio \in {"estructural", "operativo"}
        /\ desvios[i].tipo_desvio = "estructural" <=> Cardinality(Previos60(i)) >= 2

\* a third detection within the window was created as structural
C1_Witness ==
    \E i \in DOMAIN desvios :
        /\ desvios[i].tipo_desvio = "estructural"
        /\ desvios[i].fecha_deteccion > 0

\* C2: every structural Deviation that reached "cumplido" through the
\* operator inbox has a Decision referencing it.
C2_DecisionAfterClose ==
    \A d \in DOMAIN desvios :
        (desvios[d].tipo_desvio = "estructural" /\ desvios[d].estado = "cumplido")
            => DecisionesDe(d) # {}

\* C3: no Deviation ever has more than one Decision.
C3_AtMostOneDecision ==
    \A d \in DOMAIN desvios : Cardinality(DecisionesDe(d)) <= 1

C6_CumplidoTerminal ==
    [][\A d \in DOMAIN desvios :
          desvios[d].estado = "cumplido" => desvios'[d].estado = "cumplido"]_vars

\* C6 amended: the estado of a "cumplido" Deviation is changed by no
\* operation whose script run read the Deviation as closed; the only step
\* that changes it is the update_desvio of a "Guardar cambios" run that read
\* the Deviation while it was still open.
C6_SoloLecturaVieja ==
    [][\A d \in DOMAIN desvios :
          (desvios[d].estado = "cumplido" /\ desvios'[d].estado # "cumplido")
            => \E u \in Users :
                  /\ runs[u].pc = "guardar_update"
                  /\ runs[u].did = d
                  /\ runs[u].d_estado \in EstadosAbiertos
                  /\ runs'[u] # runs[u]]_vars

\* a Deviation that was closed and is no longer "cumplido"
C6_Witness ==
    \E d \in DOMAIN desvios :
        /\ desvios[d].fecha_cierre # None
        /\ desvios[d].estado # "cumplido"

\* ---------------------------------------------- evaluations and scores
\* C4: every recorded Evaluation with status Observación or No Conforme has
\* a Deviation of its location and item.
C4_DesvioPorFalla ==
    \A i \in DOMAIN audit_results :
        audit_results[i].status \in {"Observación", "No Conforme"}
            => \E d \in DOMAIN desvios :
                  /\ desvios[d].local = audit_results[i].local
                  /\ desvios[d].item_codigo = audit_results[i].item_id

\* the periods in which an item has a non-passing Evaluation at a location
PeriodosConFalla(local, item_id) ==
    {audit_results[i].fecha : i \in
        {k \in DOMAIN audit_results :
            /\ audit_results[k].local = local
            /\ audit_results[k].item_id = item_id
            /\ audit_results[k].status # "Conforme"}}

\* C7: get_recurring_failures(local, 2) returns an item iff the item has
\* non-passing Evaluations at that location in at least 2 distinct periods.
C7_RecurrentePorPeriodo ==
    \A l \in LOCALES, x \in Items :
        (\E r \in GetRecurringFailures(audit_results, l, 2) : r.item_id = x)
            <=> Cardinality(PeriodosConFalla(l, x)) >= 2

Abs(x) == IF x < 0 THEN -x ELSE x

\* s is the integer nearest to sum / n, the even one of the two when
\* sum / n lies half way between two integers
Redondeado(s, sum, n) ==
    /\ 2 * Abs(n * s - sum) <= n
    /\ 2 * Abs(n * s - sum) = n => s % 2 = 0

SinResultados(a) ==
    \A i \in DOMAIN audit_results :
        ~(audit_results[i].local = a.local /\ audit_results[i].fecha = a.fecha)

\* C8 as stated: score_global is exactly the arithmetic mean of the
\* per-section scores, and 0 for a (local, fecha) without Evaluations.
C8_MediaExacta ==
    \A a \in auditorias :
        LET n == Cardinality(DOMAIN a.scores)
        IN  /\ n > 0 => a.score_global * n = SumOver(a.scores, DOMAIN a.scores)
            /\ SinResultados(a) => a.score_global = 0

\* C8 amended: score_global is the arithmetic mean of the per-section
\* scores, every section weighing the same, rounded to the nearest integer
\* (a tie to the even one); it is 0 for a (local, fecha) without Evaluations.
C8_MediaRedondeada ==
    \A a \in auditorias :
        LET n == Cardinality(DOMAIN a.scores)
        IN  /\ n > 0 => Redondeado(a.score_global,
                                   SumOver(a.scores, DOMAIN a.scores), n)
            /\ n = 0 => a.score_global = 0
            /\ SinResultados(a) => (n = 0 /\ a.score_global = 0)

\* a summary of two sections holding 1 and 2 Evaluations whose mean is a tie
C8_Witness ==
    \E a \in auditorias :
        /\ Cardinality(DOMAIN a.scores) = 2
        /\ a.items_evaluados = 3
        /\ SumOver(a.scores, DOMAIN a.scores) % 2 = 1

\* the summary written by the latest upsert_auditoria, while no Evaluation
\* has been written since
Recientes ==
    {a \in auditorias :
        upserts.n >= 1 /\ a.local = upserts.local /\ a.fecha = upserts.fecha}

DeSeccion(a, sec) ==
    {i \in DOMAIN audit_results :
        /\ audit_results[i].local = a.local
        /\ audit_results[i].fecha = a.fecha
        /\ audit_results[i].section = sec}

SeccionesDe(a) ==
    {audit_results[i].section : i \in
        {k \in DOMAIN audit_results :
            audit_results[k].local = a.local /\ audit_results[k].fecha = a.fecha}}

\* 100 per Conforme and 50 per Observación
Puntos(S) ==
    100 * Cardinality({i \in S : audit_results[i].status = "Conforme"})
    + 50 * Cardinality({i \in S : audit_results[i].status = "Observación"})

\* C9 as stated: the score of every section that has Evaluations is exactly
\* the average of the points 100 / 50 / 0 of its Evaluations, and all scores
\* lie in 0..100.
C9_PromedioExacto ==
    \A a \in Recientes :
        /\ DOMAIN a.scores = SeccionesDe(a)
        /\ \A sec \in DOMAIN a.scores :
              /\ a.scores[sec] * Cardinality(DeSeccion(a, sec))
                    = Puntos(DeSeccion(a, sec))
              /\ a.scores[sec] \in 0..100
        /\ a.score_global \in 0..100

\* C9 amended: the score of every section that has Evaluations is the
\* average of the points 100 / 50 / 0 of its Evaluations rounded to the
\* nearest integer (a tie to the even one), and all scores lie in 0..100.
C9_PromedioRedondeado ==
    \A a \in Recientes :
        /\ DOMAIN a.scores = SeccionesDe(a)
        /\ \A sec \in DOMAIN a.scores :
              /\ Redondeado(a.scores[sec], Puntos(DeSeccion(a, sec)),
                            Cardinality(DeSeccion(a, sec)))
              /\ a.scores[sec] \in 0..100
        /\ a.score_global \in 0..100

\* a section of three Evaluations whose average is not an integer
C9_Witness ==
    \E a \in Recientes : \E sec \in DOMAIN a.scores :
        /\ Cardinality(DeSeccion(a, sec)) = 3
        /\ Puntos(DeSeccion(a, sec)) % 3 # 0

\* C10: a further upsert_auditoria of the same (local, fecha), with no
\* Evaluation written since the previous one, leaves scores, score_global,
\* items_evaluados and created_at as they were.
C10_UpsertIdempotente ==
    [][\A a \in Recientes :
          (upserts'.n = 2 /\ upserts'.local = a.local /\ upserts'.fecha = a.fecha)
            => \E b \in auditorias' :
                  /\ b.local = a.local
                  /\ b.fecha = a.fecha
                  /\ b.scores = a.scores
                  /\ b.score_global = a.score_global
                  /\ b.items_evaluados = a.items_evaluados
                  /\ b.created_at = a.created_at]_vars

\* a summary of some Evaluations upserted twice in a row, created earlier
C10_Witness ==
    \E a \in Recientes :
        /\ upserts.n = 2
        /\ a.items_evaluados > 0
        /\ a.created_at < now

\* ------------------------------------------------- corrections as context
\* S holds the up-to-5 Corrections of cands created last: min(5, |cands|) of
\* them, none created before a Correction of cands that is left out
MasRecientes(S, cands) ==
    /\ S \subseteq cands
    /\ Cardinality(S) = (IF Cardinality(cands) < 5 THEN Cardinality(cands) ELSE 5)
    /\ \A c \in S, d \in cands \ S :
          corrections[c].created_at >= corrections[d].created_at

CorreccionesDe(item, hasta) ==
    {c \in 1..hasta : corrections[c].item_id = item}

\* C12 as stated: at every classifier call the corrections passed for the
\* item are exactly the up-to-5 most recently created Corrections of that
\* item stored at that moment.
C12_CincoMasRecientes ==
    [][(batch.pc = "loop" /\ batch'.i # batch.i)
        => MasRecientes(batch.past,
                        CorreccionesDe(batch.item_id, Len(corrections)))]_vars

\* C12 amended: the corrections passed to every classifier call of an
\* analysis click are the up-to-5 most recently created Corrections of the
\* item among those stored when the click read them, before its first photo.
C12_CincoAlLeer ==
    batch.n > 0 =>
        MasRecientes(batch.past, CorreccionesDe(batch.item_id, batch.leidas))

\* a loop whose context holds 5 Corrections of its item and leaves out an
\* older one
C12_Witness ==
    /\ batch.pc = "loop"
    /\ Cardinality(batch.past) = 5
    /\ \E d \in CorreccionesDe(batch.item_id, batch.leidas) \ batch.past :
          \A c \in batch.past :
              corrections[d].created_at < corrections[c].created_at

\* ------------------------------------------------- malformed responses
\* a response without any JSON text in it
SinJSON(content) == \A k \in DOMAIN content : content[k] \notin DOMAIN JsonValue

\* C11: when the response cannot be parsed as JSON, every analysis of a photo
\* ends without an error and stores an Evaluation with status Observación
\* and a non-empty justification or the parse-failure note.
C11_RespuestaMalformada ==
    SinJSON(respuesta) =>
        /\ \A k \in DOMAIN batch.reportes :
              batch.reportes[k].saved /\ ~batch.reportes[k].error
        /\ \A i \in DOMAIN audit_results :
              /\ audit_results[i].status = "Observación"
              /\ \/ audit_results[i].justificacion # <<>>
                 \/ Nota \in Range(audit_results[i].recomendaciones)

\* C18: every stored Evaluation has a status of the rubric.
C18_StatusDelRubro ==
    \A i \in DOMAIN audit_results : audit_results[i].status \in STATUSES

\* ------------------------------------------------- the recurrence flags
\* C13: a Deviation is reincidente iff at least one Deviation of the same
\* (local, item_codigo) detected within the 60 days before it existed when
\* it was created, veces_detectado_60d is that number plus one, reincidente
\* holds iff veces_detectado_60d > 1 and estructural iff it is >= 3.
C13_Reincidente ==
    \A i \in DOMAIN desvios :
        /\ desvios[i].reincidente <=> Cardinality(Previos60(i)) >= 1
        /\ desvios[i].veces_detectado_60d = Cardinality(Previos60(i)) + 1
        /\ desvios[i].reincidente <=> desvios[i].veces_detectado_60d > 1
        /\ desvios[i].tipo_desvio = "estructural"
              <=> desvios[i].veces_detectado_60d >= 3

\* a second detection flagged reincidente, and a detection that is not
\* although its (local, item_codigo) was detected more than 60 days before
C13_Witness ==
    /\ \E i \in DOMAIN desvios :
          desvios[i].reincidente /\ desvios[i].veces_detectado_60d = 2
    /\ \E i \in DOMAIN desvios, j \in DOMAIN desvios :
          /\ j < i
          /\ desvios[j].local = desvios[i].local
          /\ desvios[j].item_codigo = desvios[i].item_codigo
          /\ ~desvios[i].reincidente

\* C14: once every create_desvio call has completed, the k-th Deviation
\* inserted for a (local, item_codigo) within 60 days carries
\* veces_detectado_60d = k, and exactly the 3rd and later ones are
\* estructural.
C14_ContadorConsistente ==
    (\A u \in Users : creates[u].pc = "idle") =>
        \A i \in DOMAIN desvios :
            /\ desvios[i].veces_detectado_60d = Cardinality(Previos60(i)) + 1
            /\ desvios[i].tipo_desvio = "estructural"
                  <=> Cardinality(Previos60(i)) >= 2

\* ------------------------------------------------------- lost updates
\* C15: the update_desvio of "Guardar cambios" writes the values its run
\* submitted whatever the Deviation holds by then and whoever wrote it, so
\* the write of a run that read the Deviation earlier replaces the values
\* another user saved in between; the run ends as any other.
C15_UltimaEscrituraGana ==
    [][\A u \in Users :
          (runs[u].pc = "guardar_update" /\ runs'[u] # runs[u])
            => /\ desvios'[runs[u].did].estado = runs[u].estado
               /\ desvios'[runs[u].did].fecha_limite = runs[u].limite
               /\ runs'[u].pc \in {"idle", "guardar_close"}]_vars

\* both users' saves have completed: one had saved estado cumplido from the
\* inbox, and the Deviation now holds the estado the other one submitted
C15_Witness ==
    /\ \A u \in Users : runs[u].pc = "idle"
    /\ \E d \in DOMAIN desvios :
          /\ desvios[d].comentario_cierre = "Cerrado desde bandeja"
          /\ desvios[d].estado = "en_proceso"

\* ------------------------------------------------- one summary per audit
\* C16: the auditorias collection never holds two records of the same
\* (local, fecha).
C16_UnaPorLocalFecha ==
    \A a \in auditorias, b \in auditorias :
        (a.local = b.local /\ a.fecha = b.fecha) => a = b

\* a call whose query found no record is about to insert, and a record of
\* its (local, fecha) has been inserted by another call since
C16_Witness ==
    \E u \in Users :
        /\ ups[u].pc = "write"
        /\ ~ups[u].found
        /\ \E a \in auditorias :
              a.local = ups[u].local /\ a.fecha = ups[u].fecha

\* ------------------------------------------ several Evaluations of an item
\* the Evaluations of an item in a summary's (local, fecha)
DeItem(a, x) ==
    {i \in DOMAIN audit_results :
        /\ audit_results[i].local = a.local
        /\ audit_results[i].fecha = a.fecha
        /\ audit_results[i].item_id = x}

\* of every item of the section, the Evaluation recorded last
UltimasDe(a, sec) ==
    {i \in DeSeccion(a, sec) :
        \A j \in DeSeccion(a, sec) :
            audit_results[j].item_id = audit_results[i].item_id => j <= i}

\* C17 as stated: only the most recently recorded Evaluation of each item
\* contributes to the score of its section.
C17_UltimaPorItem ==
    \A a \in Recientes : \A sec \in DOMAIN a.scores :
        Redondeado(a.scores[sec], Puntos(UltimasDe(a, sec)),
                   Cardinality(UltimasDe(a, sec)))

\* C17 amended: every Evaluation of an item contributes to the score of its
\* section with the same weight, the earlier ones of a re-analysed item
\* included, and items_evaluados counts every Evaluation record.
C17_TodasCuentan ==
    \A a \in Recientes :
        /\ a.items_evaluados
              = SumOver([x \in Items |-> Cardinality(DeItem(a, x))], Items)
        /\ \A sec \in DOMAIN a.scores :
              LET xs == {x \in Items : ItemSection[x] = sec}
              IN  Redondeado(a.scores[sec],
                             SumOver([x \in xs |-> Puntos(DeItem(a, x))], xs),
                             SumOver([x \in xs |-> Cardinality(DeItem(a, x))], xs))

\* a summary of an item analysed as No Conforme and then again as Conforme
C17_Witness ==
    \E a \in Recientes : \E i \in DeItem(a, "B.4"), j \in DeItem(a, "B.4") :
        /\ i < j
        /\ audit_results[i].status = "No Conforme"
        /\ audit_results[j].status = "Conforme"
        /\ a.scores["B"] = 50

\* ------------------------------------------------- failures in a batch
\* s is t or t without its last elements
Prefijo(s, t) == Len(s) <= Len(t) /\ SubSeq(t, 1, Len(s)) = s

\* C19: whatever fails while a photo of a batch is analysed or saved, the
\* loop reports on that photo and goes on to the next one until all n
\* photos have been dealt with; the photo's Evaluation is stored exactly
\* when it is reported saved, and no stored Evaluation is ever removed.
C19_FallaAislada ==
    [][/\ Prefijo(audit_results, audit_results')
       /\ batch.pc = "loop" =>
             /\ batch'.i = batch.i + 1
             /\ Len(batch'.reportes) = batch.i
             /\ batch'.pc = (IF batch.i < batch.n THEN "loop" ELSE "idle")
             /\ Len(audit_results') =
                   Len(audit_results)
                   + (IF batch'.reportes[batch.i].saved THEN 1 ELSE 0)]_vars

\* a finished batch of two photos: the analysis of the first failed, the
\* Evaluation of the second is stored
C19_Witness ==
    /\ batch.pc = "idle"
    /\ batch.n = 2
    /\ Len(batch.reportes) = 2
    /\ batch.reportes[1].error
    /\ batch.reportes[2].saved
    /\ Len(audit_results) >= 1

\* ------------------------------------------------------- append-only
\* C20: every step leaves the stored Evaluations and Corrections as they
\* were or appends exactly one record to one of the collections, and a step
\* that removes photos changes neither collection.
C20_SoloAgrega ==
    [][/\ Prefijo(audit_results, audit_results')
       /\ Len(audit_results') <= Len(audit_results) + 1
       /\ Prefijo(corrections, corrections')
       /\ Len(corrections') <= Len(corrections) + 1
       /\ Len(photos') < Len(photos) =>
             (audit_results' = audit_results /\ corrections' = corrections)]_vars

\* the photo of day 0 has been removed while a photo of today, Evaluations
\* and Corrections are stored
C20_Witness ==
    /\ photos # <<>>
    /\ \A k \in DOMAIN photos : photos[k].created_at = now
    /\ audit_results # <<>>
    /\ corrections # <<>>

\* ------------------------------------------------ Deviations coming due
\* the horizons get_desvios_por_vencer is asked for: none, and the 7 days
\* of the weekly control
Horizontes == {0, ControlDays}

\* C21: for every location filter and horizon, the list of
\* get_desvios_por_vencer holds, once each and by ascending fecha_limite,
\* exactly the open Deviations of the location whose fecha_limite is set
\* and is past or at most days ahead; no closed, incumplido or undated
\* Deviation is in it.
C21_PorVencer ==
    \A local \in Filtros, days \in Horizontes :
        LET r == PorVencer(desvios, now, local, days)
        IN  /\ \A j, k \in DOMAIN r : j < k =>
                  /\ r[j] # r[k]
                  /\ desvios[r[j]].fecha_limite <= desvios[r[k]].fecha_limite
            /\ {r[k] : k \in DOMAIN r} =
                  {i \in DOMAIN desvios :
                      /\ desvios[i].estado = "pendiente"
                            \/ desvios[i].estado = "en_proceso"
                      /\ desvios[i].fecha_limite # None
                      /\ \/ desvios[i].fecha_limite < now
                         \/ desvios[i].fecha_limite - now <= days
                      /\ local # Todos => desvios[i].local = local}
            /\ \A k \in DOMAIN r :
                  /\ desvios[r[k]].estado \notin {"cumplido", "incumplido"}
                  /\ desvios[r[k]].fecha_limite # None

\* two Deviations of Edén come due, listed against the order they were
\* created in, while a closed Deviation with a limit in the horizon and one
\* beyond the shorter horizon are left out
C21_Witness ==
    LET r == PorVencer(desvios, now, "Edén", ControlDays)
    IN  /\ Len(r) = 2
        /\ r[1] > r[2]
        /\ desvios[r[1]].fecha_limite < desvios[r[2]].fecha_limite
        /\ Len(PorVencer(desvios, now, "Edén", 0)) = 1
        /\ \E i \in DOMAIN desvios :
              /\ desvios[i].estado \in {"cumplido", "incumplido"}
              /\ desvios[i].fecha_limite # None
              /\ desvios[i].fecha_limite <= now + ControlDays

\* --------------------------------------------------- the weekly review
\* C23: a run of the weekly review leaves every Deviation of the filtered
\* location that was open with a fecha_limite before now in estado
\* incumplido, and changes the estado of no other Deviation.
C23_IncumplidoTrasRevision ==
    [][\A f \in Filtros :
          ControlSemanal(f) =>
             \A i \in GetDesvios(desvios, f) :
                IF /\ desvios[i].estado \in EstadosAbiertos
                   /\ desvios[i].fecha_limite # None
                   /\ desvios[i].fecha_limite < now
                THEN desvios'[i].estado = "incumplido"
                ELSE desvios'[i].estado = desvios[i].estado]_vars

\* --------------------------------------------- datastore not available
\* C22: a script run of Historial or Planes de Mejora made while the
\* datastore is not configured or cannot be reached shows the warning (and
\* stops: it raises nothing) and changes no stored data.
C22_AvisoSinDatastore ==
    [][(PaginaHistorial \/ PaginaMejoras) /\ ~(uri /\ conectado) =>
          /\ pantalla'.resultado = "warning"
          /\ UNCHANGED <<desvios, decisiones, audit_results, auditorias,
                         corrections, photos>>]_vars

\* ------------------------------------------------ no transition graph
\* C24: update_desvio with estado = e on a stored Deviation, whatever its
\* estado, leaves it in estado e with updated_at = now, every other field
\* and every other Deviation as they were.
C24_SinGrafo ==
    \A d \in DOMAIN desvios, e \in Range(ESTADOS_DESVIO) :
        LET col == UpdateDesvio(desvios, now, d, [estado |-> e])
        IN  /\ col[d].estado = e
            /\ col[d].updated_at = now
            /\ \A f \in DOMAIN desvios[d] \ {"estado", "updated_at"} :
                  col[d][f] = desvios[d][f]
            /\ DOMAIN col = DOMAIN desvios
            /\ \A k \in DOMAIN desvios \ {d} : col[k] = desvios[k]

\* a Deviation that was closed is pendiente again, another one closed
\* earlier is incumplido, a third went to en_proceso
C24_Witness ==
    /\ \E d \in DOMAIN desvios :
          desvios[d].fecha_cierre # None /\ desvios[d].estado = "pendiente"
    /\ \E d \in DOMAIN desvios :
          desvios[d].fecha_cierre # None /\ desvios[d].estado = "incumplido"
    /\ \E d \in DOMAIN desvios :
          desvios[d].fecha_cierre = None /\ desvios[d].estado = "en_proceso"

\* ------------------------------------------ Corrections on confirmation
\* the status the classifier gave the session's k-th result
AiStatus(k) == Get(batch.results[k].result.d, "status", "Observación")

\* C25 as stated: a click of "Confirmar y siguiente" stores one Correction
\* for each result of the current criterion whose selected status differs
\* from the classifier's, and none for the others.
C25_SoloSiDifiere ==
    [][\A i \in CriteriaIds \cap {batch'.criterion},
          sel \in [DOMAIN batch.results -> SeleccionesNota] :
          Confirmar(i, sel) =>
             Len(corrections') - Len(corrections) =
                Cardinality({k \in ResultadosDe(batch.results, i) :
                                sel[k][1] # AiStatus(k)})]_vars

\* C25 amended: with the datastore connected, a click of "Confirmar y
\* siguiente" keeps the stored Corrections and appends one Correction for
\* each result of the current criterion whose selected status differs from
\* the classifier's or whose note is not empty, and none for the others;
\* each carries the criterion, the classifier's status, the selected status
\* and the note.
C25_DifiereONota ==
    [][\A i \in CriteriaIds \cap {batch'.criterion},
          sel \in [DOMAIN batch.results -> SeleccionesNota] :
          Confirmar(i, sel) =>
             LET K == {k \in ResultadosDe(batch.results, i) :
                          sel[k][1] # AiStatus(k) \/ sel[k][2] # ""}
                 nuevas == SubSeq(corrections', Len(corrections) + 1,
                                  Len(corrections'))
             IN  /\ Prefijo(corrections, corrections')
                 /\ Len(nuevas) = Cardinality(K)
                 /\ \A k \in K :
                       \E c \in DOMAIN nuevas :
                          /\ nuevas[c].item_id = i
                          /\ nuevas[c].ai_status = AiStatus(k)
                          /\ nuevas[c].corrected_status = sel[k][1]
                          /\ nuevas[c].correction_notes = sel[k][2]]_vars

\* a Correction whose status agrees with the classifier's and that carries
\* a note, next to one whose status differs
C25_Witness ==
    /\ \E c \in DOMAIN corrections :
          /\ corrections[c].corrected_status = corrections[c].ai_status
          /\ corrections[c].correction_notes # ""
    /\ \E c \in DOMAIN corrections :
          corrections[c].corrected_status # corrections[c].ai_status

\* ------------------------------------------------ the next criterion
\* the position of a criterion in the catalog
PosicionDe(id) == CHOOSE k \in DOMAIN CRITERIA : CRITERIA[k].id = id

\* C27: a click of "Confirmar y siguiente" on a criterion leaves the
\* selection on the criterion that follows it in the catalog, and on the
\* same criterion, with the closing message, only at the last criterion of
\* the last section.
C27_SiguienteItem ==
    [][\A i \in CriteriaIds \cap {batch'.criterion} :
          (\E sel \in [DOMAIN batch.results -> SeleccionesNota] :
              Confirmar(i, sel)) =>
             IF PosicionDe(i) < Len(CRITERIA)
             THEN batch'.criterion = CRITERIA[PosicionDe(i) + 1].id
             ELSE /\ batch'.criterion = i
                  /\ pantalla'.resultado = "ultimo item"]_vars

\* ------------------------------------------------------ the weekly plan
\* the Deviations of a location that are open
AbiertosEn(local) ==
    {i \in DOMAIN desvios :
        desvios[i].local = local /\ desvios[i].estado \in {"pendiente", "en_proceso"}}

\* i ranks strictly before j: reincidente before not, then alta, media, baja
RankAntes(i, j) ==
    LET grupo(k) == IF desvios[k].reincidente THEN 1 ELSE 2
        nivel(k) == IF desvios[k].prioridad = "alta" THEN 1
                    ELSE IF desvios[k].prioridad = "media" THEN 2 ELSE 3
    IN  grupo(i) < grupo(j) \/ (grupo(i) = grupo(j) /\ nivel(i) < nivel(j))

\* C26: whatever order the datastore gives equals, the weekly plan of a
\* location lists at most 10 Deviations, each once, all open at the
\* location, none of them ranking strictly before one listed ahead of it,
\* and no open Deviation left out ranks strictly before a listed one.
C26_PlanSemanal ==
    \A local \in LOCALES, inverso \in BOOLEAN :
        LET r == PlanSemanal(desvios, local, inverso)
            listados == {r[k] : k \in DOMAIN r}
        IN  /\ Len(r) <= 10
            /\ Cardinality(listados) = Len(r)
            /\ listados \subseteq AbiertosEn(local)
            /\ \A j, k \in DOMAIN r : j < k => ~RankAntes(r[k], r[j])
            /\ \A o \in AbiertosEn(local) \ listados, i \in listados :
                  ~RankAntes(o, i)

\* more than 10 Deviations are open at Edén; the plan lists 10 of them,
\* reincidentes of all three priorities ahead of one that is not
\* reincidente, and leaves another one out
C26_Witness ==
    LET r == PlanSemanal(desvios, "Edén", FALSE)
    IN  /\ Cardinality(AbiertosEn("Edén")) > 10
        /\ Len(r) = 10
        /\ ~desvios[r[10]].reincidente
        /\ \A p \in {"alta", "media", "baja"} :
              \E k \in DOMAIN r :
                 desvios[r[k]].reincidente /\ desvios[r[k]].prioridad = p
        /\ \E o \in AbiertosEn("Edén") : \A k \in DOMAIN r : r[k] # o

\* ------------------------------------------------------- photo names
\* C28: no two stored photos of the same location, period and criterion
\* carry the same photo_name.
C28_NombresUnicos ==
    \A j, k \in DOMAIN photos :
        (/\ j # k
         /\ photos[j].local = photos[k].local
         /\ photos[j].fecha = photos[k].fecha
         /\ photos[j].item_id = photos[k].item_id)
        => photos[j].photo_name # photos[k].photo_name

\* ---------------------------------------------------------- decisions
\* C29: after every step each Decision refers to a stored Deviation whose
\* tipo_desvio is "estructural", and each Decision the step created has
\* estado_decision "pendiente" and an empty propuesta.
C29_DecisionEstructural ==
    [][/\ \A k \in DOMAIN decisiones' :
            /\ decisiones'[k].desvio_id \in DOMAIN desvios'
            /\ desvios'[decisiones'[k].desvio_id].tipo_desvio = "estructural"
       /\ \A k \in DOMAIN decisiones' \ DOMAIN decisiones :
            /\ decisiones'[k].estado_decision = "pendiente"
            /\ decisiones'[k].propuesta = ""]_vars

\* an operativo Deviation was closed without a Decision while a structural
\* one has its Decision
C29_Witness ==
    /\ \E d \in DOMAIN desvios :
          /\ desvios[d].tipo_desvio = "operativo"
          /\ desvios[d].fecha_cierre # None
          /\ \A k \in DOMAIN decisiones : decisiones[k].desvio_id # d
    /\ \E k \in DOMAIN decisiones :
          /\ desvios[decisiones[k].desvio_id].tipo_desvio = "estructural"
          /\ desvios[decisiones[k].desvio_id].fecha_cierre # None

\* ------------------------------------------- the two reads of an upsert
\* C30: the scores, score_global and items_evaluados one upsert_auditoria
\* call is about to write are those of one and the same set of Evaluations:
\* the Evaluations stored at some moment (Evaluations are only ever added,
\* so those are the first n stored).
C30_MismasEvaluaciones ==
    \A u \in Users :
        ups[u].pc \in {"query", "write"}
        => \E n \in 0..Len(audit_results) :
              LET antes == SubSeq(audit_results, 1, n)
                  scores == CalculateSectionScores(antes, ups[u].local,
                                                   ups[u].fecha)
              IN  /\ ups[u].set.scores = scores
                  /\ ups[u].set.score_global = ScoreGlobal(scores)
                  /\ ups[u].set.items_evaluados =
                        Cardinality(GetAuditResults(antes, ups[u].local,
                                                    ups[u].fecha))

====
